---- MODULE Spec2Model ----
(***************************************************************************)
(* create-fastreact: the bootstrap pipeline of the command-line project    *)
(* generator.  main() resolves the external tools (Claude Code, Modal,     *)
(* Vercel), runs the interactive prompts, and calls createProject, which   *)
(* materialises the template tree and writes the generated files.          *)
(*                                                                         *)
(* Text is modelled as a sequence of one-character strings, so that the    *)
(* regular expression of validateProjectName, the template literals of     *)
(* createProject and the token substitution of copyDir are computed        *)
(* character by character.  The JavaScript values null, undefined and ""   *)
(* are all falsy and are only ever tested for truthiness by the code; the  *)
(* empty sequence stands for the three of them.                            *)
(***************************************************************************)
EXTENDS Integers, Sequences, FiniteSets, TLC

VARIABLES
    pc,             \* position of main(): <<function, step>>
    claudeReady,    \* main: const claudeReady
    modalUsername,  \* main: const modalUsername
    vercelUsername, \* main: const vercelUsername
    username,       \* ensureModal / ensureVercel: let username
    projectName,    \* main: const { projectName }
    appDescription, \* main: const appDescription
    configureAuth,  \* main: authResponse.configureAuth
    modalKey,       \* main: let modalKey
    modalSecret,    \* main: let modalSecret
    attempts,       \* submissions the current text prompt has rejected
    calls,          \* subprocesses run so far, per tool and kind
    toolState,      \* what the first checks of each tool found
    asked,          \* confirm/text prompts issued so far
    output,         \* lines printed with console.log / console.error
    rejected,       \* the last submission the current text prompt rejected
    exitCode,       \* the exit code of the process, 0 or 1
    template,       \* the template tree shipped next to the module
    templateFound,  \* whether ../template or ../../template exists
    target,         \* the directory cwd/projectName
    steps,          \* createProject: the execSync commands run so far
    agent,          \* the `uv run agent` child: "none", "running", "failed"
    lastExec,       \* how the last execSync ended: "none", "ok", "failed"
    running,        \* the children of the process that have not ended
    fileContent,    \* SpecSubst: a template file's content
    once,           \* SpecSubst: content after one substitution pass
    twice,          \* SpecSubst: content after a second pass
    runPc,          \* SpecRace: the step each run of createProject is at
    wrote,          \* SpecRace: whether each run has written under the path
    argv            \* process.argv[2], the positional argument, if any

mainVars == <<claudeReady, modalUsername, vercelUsername, username,
              projectName, appDescription, configureAuth, modalKey,
              modalSecret>>
fsVars == <<template, templateFound, target>>
promptVars == <<attempts, rejected>>
postVars == <<steps, agent, lastExec, running>>
histVars == <<calls, toolState>>
substVars == <<fileContent, once, twice>>
\* what main() and createProject never touch
raceVars == <<runPc, wrote>>
otherVars == <<substVars, raceVars, argv>>
vars == <<pc, mainVars, promptVars, histVars, asked, output, exitCode, fsVars,
          postVars, otherVars>>

----------------------------------------------------------------------------
(* Bounds of the model *)

\* longest project name the user types, over NameAlphabet
MaxNameLen == 1
\* submissions a text prompt rejects before the user gives up typing
MaxAttempts == 2

\* the invocations of the generator that SpecRace starts on one path
Runs == {"first", "second"}

----------------------------------------------------------------------------
(* Text *)

Null == <<>>

Truthy(s) == s # <<>>

LowerCase == {"a", "b", "c", "d", "e", "f", "g", "h", "i", "j", "k", "l", "m",
              "n", "o", "p", "q", "r", "s", "t", "u", "v", "w", "x", "y", "z"}
Digits == {"0", "1", "2", "3", "4", "5", "6", "7", "8", "9"}

\* characters the user types into the project-name prompt
NameAlphabet == {"a", "-", " ", "A"}

SeqsUpTo(S, n) == UNION { [1..k -> S] : k \in 0..n }

Demo == <<"d", "e", "m", "o">>
MyApp == <<"m", "y", " ", "a", "p", "p">>
Alice == <<"a", "l", "i", "c", "e">>

\* what the user may submit to the project-name prompt
NameInputs == SeqsUpTo(NameAlphabet, MaxNameLen) \cup {Demo, MyApp}

\* what `modal profile current` / `vercel whoami` may print, trimmed
Identities == {Alice}

\* what the user may submit to the description prompt
DescInputs == {<<>>, <<"t", "o", "d", "o">>}

\* what the user may submit to the two token prompts
KeyInputs == {<<>>, <<"w", "k", "-", "1">>}
SecretInputs == {<<>>, <<"w", "s", "-", "1">>}

----------------------------------------------------------------------------
(* validateProjectName: true, or the message the prompt shows *)

\* (variant: the character class also admits a space)
validateProjectNameLoose(name) ==
    IF ~Truthy(name) THEN "Project name is required"
    ELSE IF \E i \in 1..Len(name) :
                name[i] \notin (LowerCase \cup Digits \cup {"-", " "})
    THEN "Project name can only contain lowercase letters, numbers, and hyphens"
    ELSE "true"

validateProjectName(name) ==
    IF ~Truthy(name) THEN "Project name is required"
    ELSE IF \E i \in 1..Len(name) :
                name[i] \notin (LowerCase \cup Digits \cup {"-"})
    THEN "Project name can only contain lowercase letters, numbers, and hyphens"
    ELSE "true"

\* the description prompt's validate: (value) => value ? true : "Please ..."
validateDescription(value) ==
    IF Truthy(value) THEN "true" ELSE "Please describe what you want to build"

----------------------------------------------------------------------------
(* The external tools *)

Tools == {"claude", "modal", "vercel"}
\* the tools resolved by ensureModal / ensureVercel
AuthTools == {"modal", "vercel"}
Kinds == {"detect", "identity", "install", "auth"}

NotFoundLine(t) ==
    IF t = "claude" THEN "Claude Code CLI not found"
    ELSE IF t = "modal" THEN "Modal CLI not found"
    ELSE "Vercel CLI not found"
NotLoggedInLine(t) ==
    IF t = "claude" THEN "Claude Code not authenticated"
    ELSE IF t = "modal" THEN "Not logged in to Modal"
    ELSE "Not logged in to Vercel"
InstalledLine(t) ==
    IF t = "modal" THEN "Modal CLI installed" ELSE "Vercel CLI installed"
InstallHint(t) ==
    IF t = "claude" THEN "Install: npm install -g @anthropic-ai/claude-code"
    ELSE IF t = "modal" THEN "Install manually: uv tool install modal"
    ELSE "Install manually: npm install -g vercel"
InstallFailedHint(t) ==
    IF t = "modal" THEN "Try manually: uv tool install modal"
    ELSE IF t = "vercel" THEN "Try manually: npm install -g vercel"
    ELSE "(ensureClaudeCode installs nothing)"
LoginHint(t) ==
    IF t = "claude"
    THEN "Run 'claude' in your terminal and complete the login flow."
    ELSE IF t = "modal" THEN "Log in manually: modal setup"
    ELSE "Log in manually: vercel login"
LoginFailed(t) ==
    IF t = "modal" THEN "Modal login failed"
    ELSE IF t = "vercel" THEN "Vercel login failed"
    ELSE "(ensureClaudeCode logs nothing in)"
SetupRequired(t) ==
    IF t = "claude" THEN "Claude Code setup required. Exiting."
    ELSE IF t = "modal" THEN "Modal setup required. Exiting."
    ELSE "Vercel setup required. Exiting."

\* the first check of tool t found `field` to be `value`
Found(t, field, value) ==
    toolState' = [toolState EXCEPT ![t][field] = IF value THEN "yes" ELSE "no"]

Ran(t, k) == [calls EXCEPT ![t][k] = @ + 1]
Ran2(t, k1, k2) == [calls EXCEPT ![t][k1] = @ + 1, ![t][k2] = @ + 1]

----------------------------------------------------------------------------
(* main: process.exit(1) after printing the lines in `lines` *)

Exit1(lines) ==
    /\ output' = output \cup lines
    /\ exitCode' = 1
    /\ pc' = <<"main", "exited">>

----------------------------------------------------------------------------
(* ensureClaudeCode, and main's test of its result *)

isClaudeCodeInstalled ==
    /\ pc = <<"claude", "detect">>
    /\ calls' = Ran("claude", "detect")
    /\ \E found \in BOOLEAN :
          /\ Found("claude", "installed", found)
          /\ IF found
             THEN /\ pc' = <<"claude", "identity">>
                  /\ UNCHANGED <<output, exitCode>>
             ELSE Exit1({NotFoundLine("claude"), InstallHint("claude"),
                         SetupRequired("claude")})
    /\ UNCHANGED <<mainVars, promptVars, asked, fsVars, otherVars, postVars>>

isClaudeCodeLoggedIn ==
    /\ pc = <<"claude", "identity">>
    /\ calls' = Ran("claude", "identity")
    /\ \E working \in BOOLEAN :
          /\ Found("claude", "identity", working)
          /\ IF working
             THEN /\ claudeReady' = TRUE
                  /\ output' = output \cup {"Claude Code authenticated"}
                  /\ pc' = <<"modal", "detect">>
                  /\ UNCHANGED exitCode
             ELSE /\ Exit1({NotLoggedInLine("claude"), LoginHint("claude"),
                            SetupRequired("claude")})
                  /\ UNCHANGED claudeReady
    /\ UNCHANGED <<modalUsername, vercelUsername, username, projectName,
                   appDescription, configureAuth, modalKey, modalSecret,
                   promptVars, asked, fsVars, otherVars, postVars>>

----------------------------------------------------------------------------
(* ensureModal and ensureVercel, step by step, and main's test of the      *)
(* value they return.  t is "modal" or "vercel".                           *)

\* (variant: main goes on to the prompts as soon as Modal is resolved)
ReturnedSkipsVercel(t, value) ==
    IF Truthy(value)
    THEN /\ modalUsername' = IF t = "modal" THEN value ELSE modalUsername
         /\ vercelUsername' = IF t = "vercel" THEN value ELSE vercelUsername
         /\ output' = output \cup {IF t = "modal" THEN "Modal authenticated"
                                                   ELSE "Vercel authenticated"}
         /\ pc' = <<"main", "projectName">>
         /\ UNCHANGED exitCode
    ELSE /\ Exit1({SetupRequired(t)})
         /\ UNCHANGED <<modalUsername, vercelUsername>>

\* main: const modalUsername = await ensureModal(); if (!modalUsername) exit
Returned(t, value) ==
    IF Truthy(value)
    THEN /\ modalUsername' = IF t = "modal" THEN value ELSE modalUsername
         /\ vercelUsername' = IF t = "vercel" THEN value ELSE vercelUsername
         /\ output' = output \cup {IF t = "modal" THEN "Modal authenticated"
                                                   ELSE "Vercel authenticated"}
         /\ pc' = IF t = "modal" THEN <<"vercel", "detect">>
                                 ELSE <<"main", "projectName">>
         /\ UNCHANGED exitCode
    ELSE /\ Exit1({SetupRequired(t)})
         /\ UNCHANGED <<modalUsername, vercelUsername>>

\* ensureModal returns null after printing `lines`
ReturnedNull(t, lines) ==
    /\ Exit1(lines \cup {SetupRequired(t)})
    /\ UNCHANGED <<modalUsername, vercelUsername>>

\* (variant: a tool that is found is offered the login without its identity
\* being read)
isInstalledThenLogin(t) ==
    /\ pc = <<t, "detect">>
    /\ calls' = Ran(t, "detect")
    /\ \E found \in BOOLEAN :
          /\ Found(t, "installed", found)
          /\ IF found
             THEN /\ pc' = <<t, "promptLogin">>
                  /\ UNCHANGED output
             ELSE /\ pc' = <<t, "promptInstall">>
                  /\ output' = output \cup {NotFoundLine(t)}
    /\ UNCHANGED <<mainVars, promptVars, asked, exitCode, fsVars, otherVars, postVars>>

\* if (!isModalInstalled()) { console.log("Modal CLI not found"); ... }
isInstalled(t) ==
    /\ pc = <<t, "detect">>
    /\ calls' = Ran(t, "detect")
    /\ \E found \in BOOLEAN :
          /\ Found(t, "installed", found)
          /\ IF found
             THEN /\ pc' = <<t, "identity">>
                  /\ UNCHANGED output
             ELSE /\ pc' = <<t, "promptInstall">>
                  /\ output' = output \cup {NotFoundLine(t)}
    /\ UNCHANGED <<mainVars, promptVars, asked, exitCode, fsVars, otherVars, postVars>>

promptInstall(t) ==
    /\ pc = <<t, "promptInstall">>
    /\ asked' = asked \cup {<<t, "install">>}
    /\ \E install \in BOOLEAN :
          IF install
          THEN /\ pc' = <<t, "install">>
               /\ UNCHANGED <<output, exitCode, modalUsername, vercelUsername>>
          ELSE ReturnedNull(t, {InstallHint(t)})
    /\ UNCHANGED <<claudeReady, username, projectName, appDescription,
                   configureAuth, modalKey, modalSecret, promptVars, histVars,
                   fsVars, otherVars, postVars>>

\* (variant: a failed install is reported but ensureModal goes on)
installIgnoresFailure(t) ==
    /\ pc = <<t, "install">>
    /\ calls' = Ran(t, "install")
    /\ \E status \in {0, 1} :
          /\ pc' = <<t, "identity">>
          /\ output' = output \cup (IF status = 0 THEN {InstalledLine(t)}
                                     ELSE {"Failed to install",
                                           InstallFailedHint(t)})
          /\ UNCHANGED <<exitCode, modalUsername, vercelUsername>>
    /\ UNCHANGED toolState
    /\ UNCHANGED <<claudeReady, username, projectName, appDescription,
                   configureAuth, modalKey, modalSecret, promptVars, asked,
                   fsVars, otherVars, postVars>>

install(t) ==
    /\ pc = <<t, "install">>
    /\ calls' = Ran(t, "install")
    /\ \E status \in {0, 1} :
          IF status = 0
          THEN /\ pc' = <<t, "identity">>
               /\ output' = output \cup {InstalledLine(t)}
               /\ UNCHANGED <<exitCode, modalUsername, vercelUsername>>
          ELSE ReturnedNull(t, {"Failed to install", InstallFailedHint(t)})
    /\ UNCHANGED toolState
    /\ UNCHANGED <<claudeReady, username, projectName, appDescription,
                   configureAuth, modalKey, modalSecret, promptVars, asked,
                   fsVars, otherVars, postVars>>

\* (variant: the test of username is inverted)
getUsernameInverted(t) ==
    /\ pc = <<t, "identity">>
    /\ calls' = Ran(t, "identity")
    /\ \E name \in Identities \cup {Null} :
          /\ username' = name
          /\ Found(t, "identity", Truthy(name))
          /\ IF ~Truthy(name)
             THEN Returned(t, name)
             ELSE /\ pc' = <<t, "promptLogin">>
                  /\ output' = output \cup {NotLoggedInLine(t)}
                  /\ UNCHANGED <<exitCode, modalUsername, vercelUsername>>
    /\ UNCHANGED <<claudeReady, projectName, appDescription, configureAuth,
                   modalKey, modalSecret, promptVars, asked, fsVars, otherVars, postVars>>

\* let username = getModalUsername(); if (!username) { ... } return username
getUsername(t) ==
    /\ pc = <<t, "identity">>
    /\ calls' = Ran(t, "identity")
    /\ \E name \in Identities \cup {Null} :
          /\ username' = name
          /\ Found(t, "identity", Truthy(name))
          /\ IF Truthy(name)
             THEN Returned(t, name)
             ELSE /\ pc' = <<t, "promptLogin">>
                  /\ output' = output \cup {NotLoggedInLine(t)}
                  /\ UNCHANGED <<exitCode, modalUsername, vercelUsername>>
    /\ UNCHANGED <<claudeReady, projectName, appDescription, configureAuth,
                   modalKey, modalSecret, promptVars, asked, fsVars, otherVars, postVars>>

\* (variant: the `return null` of the declined branch is missing)
promptLoginFallsThrough(t) ==
    /\ pc = <<t, "promptLogin">>
    /\ asked' = asked \cup {<<t, "login">>}
    /\ \E answer \in BOOLEAN :
          /\ pc' = <<t, "login">>
          /\ output' = output \cup (IF answer THEN {} ELSE {LoginHint(t)})
          /\ UNCHANGED <<exitCode, modalUsername, vercelUsername>>
    /\ UNCHANGED <<claudeReady, username, projectName, appDescription,
                   configureAuth, modalKey, modalSecret, promptVars, histVars,
                   fsVars, otherVars, postVars>>

promptLogin(t) ==
    /\ pc = <<t, "promptLogin">>
    /\ asked' = asked \cup {<<t, "login">>}
    /\ \E login \in BOOLEAN :
          IF login
          THEN /\ pc' = <<t, "login">>
               /\ UNCHANGED <<output, exitCode, modalUsername, vercelUsername>>
          ELSE ReturnedNull(t, {LoginHint(t)})
    /\ UNCHANGED <<claudeReady, username, projectName, appDescription,
                   configureAuth, modalKey, modalSecret, promptVars, histVars,
                   fsVars, otherVars, postVars>>

\* (variant: a failed login is tried once more)
loginRetries(t) ==
    /\ pc = <<t, "login">>
    /\ \E status \in {0, 1}, name \in Identities \cup {Null} :
          IF status = 0
          THEN /\ calls' = Ran2(t, "auth", "identity")
               /\ IF Truthy(name)
                  THEN /\ pc' = <<t, "recheck">>
                       /\ output' = output \cup {"Logged in as"}
                       /\ UNCHANGED <<exitCode, modalUsername, vercelUsername>>
                  ELSE ReturnedNull(t, {LoginFailed(t)})
          ELSE /\ calls' = Ran(t, "auth")
               /\ IF calls[t]["auth"] = 0
                  THEN UNCHANGED <<pc, output, exitCode, modalUsername,
                                   vercelUsername>>
                  ELSE ReturnedNull(t, {LoginFailed(t)})
    /\ UNCHANGED toolState
    /\ UNCHANGED <<claudeReady, username, projectName, appDescription,
                   configureAuth, modalKey, modalSecret, promptVars, asked,
                   fsVars, otherVars, postVars>>

\* loginModal / loginVercel: the auth command, then the identity check when
\* it exited with 0
login(t) ==
    /\ pc = <<t, "login">>
    /\ \E status \in {0, 1}, name \in Identities \cup {Null} :
          IF status = 0
          THEN /\ calls' = Ran2(t, "auth", "identity")
               /\ IF Truthy(name)
                  THEN /\ pc' = <<t, "recheck">>
                       /\ output' = output \cup {"Logged in as"}
                       /\ UNCHANGED <<exitCode, modalUsername, vercelUsername>>
                  ELSE ReturnedNull(t, {LoginFailed(t)})
          ELSE /\ calls' = Ran(t, "auth")
               /\ ReturnedNull(t, {LoginFailed(t)})
    /\ UNCHANGED toolState
    /\ UNCHANGED <<claudeReady, username, projectName, appDescription,
                   configureAuth, modalKey, modalSecret, promptVars, asked,
                   fsVars, otherVars, postVars>>

\* (variant: main goes on with whatever ensureModal returned)
recheckUntested(t) ==
    /\ pc = <<t, "recheck">>
    /\ calls' = Ran(t, "identity")
    /\ \E name \in Identities \cup {Null} :
          /\ username' = name
          /\ modalUsername' = IF t = "modal" THEN name ELSE modalUsername
          /\ vercelUsername' = IF t = "vercel" THEN name ELSE vercelUsername
          /\ pc' = IF t = "modal" THEN <<"vercel", "detect">>
                                  ELSE <<"main", "projectName">>
          /\ UNCHANGED <<output, exitCode>>
    /\ UNCHANGED toolState
    /\ UNCHANGED <<claudeReady, projectName, appDescription, configureAuth,
                   modalKey, modalSecret, promptVars, asked, fsVars, otherVars, postVars>>

\* username = getModalUsername(); return username
recheck(t) ==
    /\ pc = <<t, "recheck">>
    /\ calls' = Ran(t, "identity")
    /\ \E name \in Identities \cup {Null} :
          /\ username' = name
          /\ Returned(t, name)
    /\ UNCHANGED toolState
    /\ UNCHANGED <<claudeReady, projectName, appDescription, configureAuth,
                   modalKey, modalSecret, promptVars, asked, fsVars, otherVars, postVars>>

----------------------------------------------------------------------------
(* main: the interaction session.  A text prompt with a validator shows    *)
(* the validator's message and stays open until a submission passes or the *)
(* user cancels; a cancelled prompt leaves its answer undefined.           *)

\* (variant: the answer is not tested, so that a cancelled prompt goes on
\* with no project name)
promptProjectNameUntested ==
    /\ pc = <<"main", "projectName">>
    /\ asked' = asked \cup {<<"main", "projectName">>}
    /\ \/ \E name \in NameInputs :
             IF validateProjectName(name) = "true"
             THEN /\ projectName' = name
                  /\ attempts' = 0
                  /\ rejected' = Null
                  /\ pc' = <<"main", "description">>
             ELSE /\ attempts < MaxAttempts
                  /\ attempts' = attempts + 1
                  /\ rejected' = name
                  /\ UNCHANGED <<pc, projectName>>
       \/ /\ pc' = <<"main", "description">>
          /\ attempts' = 0
          /\ rejected' = Null
          /\ UNCHANGED projectName
    /\ UNCHANGED <<claudeReady, modalUsername, vercelUsername, username,
                   appDescription, configureAuth, modalKey, modalSecret,
                   histVars, output, exitCode, fsVars, otherVars, postVars>>

promptProjectName ==
    /\ pc = <<"main", "projectName">>
    /\ asked' = asked \cup {<<"main", "projectName">>}
    /\ \/ \E name \in NameInputs :
             IF validateProjectName(name) = "true"
             THEN /\ projectName' = name
                  /\ attempts' = 0
                  /\ rejected' = Null
                  /\ pc' = <<"main", "description">>
                  /\ UNCHANGED <<output, exitCode>>
             ELSE /\ attempts < MaxAttempts
                  /\ attempts' = attempts + 1
                  /\ rejected' = name
                  /\ UNCHANGED <<pc, projectName, output, exitCode>>
       \/ /\ Exit1({"Operation cancelled."})
          /\ attempts' = 0
          /\ rejected' = Null
          /\ UNCHANGED projectName
    /\ UNCHANGED <<claudeReady, modalUsername, vercelUsername, username,
                   appDescription, configureAuth, modalKey, modalSecret,
                   histVars, fsVars, otherVars, postVars>>

\* (variant: no validator and no test of the answer, so that an empty or
\* cancelled description goes on to the next prompt)
promptDescriptionOptional ==
    /\ pc = <<"main", "description">>
    /\ asked' = asked \cup {<<"main", "description">>}
    /\ \E value \in DescInputs :
          /\ appDescription' = value
          /\ attempts' = 0
          /\ rejected' = Null
          /\ pc' = <<"main", "configureAuth">>
          /\ UNCHANGED <<output, exitCode>>
    /\ UNCHANGED <<claudeReady, modalUsername, vercelUsername, username,
                   projectName, configureAuth, modalKey, modalSecret,
                   histVars, fsVars, otherVars, postVars>>

promptDescription ==
    /\ pc = <<"main", "description">>
    /\ asked' = asked \cup {<<"main", "description">>}
    /\ \/ \E value \in DescInputs :
             IF validateDescription(value) = "true"
             THEN /\ appDescription' = value
                  /\ attempts' = 0
                  /\ rejected' = Null
                  /\ pc' = <<"main", "configureAuth">>
                  /\ UNCHANGED <<output, exitCode>>
             ELSE /\ attempts < MaxAttempts
                  /\ attempts' = attempts + 1
                  /\ rejected' = value
                  /\ UNCHANGED <<pc, appDescription, output, exitCode>>
       \/ /\ Exit1({"Operation cancelled."})
          /\ attempts' = 0
          /\ rejected' = Null
          /\ UNCHANGED appDescription
    /\ UNCHANGED <<claudeReady, modalUsername, vercelUsername, username,
                   projectName, configureAuth, modalKey, modalSecret,
                   histVars, fsVars, otherVars, postVars>>

\* (variant: the token prompts follow whatever the answer)
promptConfigureAuthAlwaysTokens ==
    /\ pc = <<"main", "configureAuth">>
    /\ asked' = asked \cup {<<"main", "configureAuth">>}
    /\ \E answer \in BOOLEAN :
          /\ configureAuth' = answer
          /\ pc' = <<"main", "tokens">>
          /\ running' = IF answer THEN running \cup {"browser"} ELSE running
    /\ UNCHANGED <<claudeReady, modalUsername, vercelUsername, username,
                   projectName, appDescription, modalKey, modalSecret,
                   promptVars, histVars, output, exitCode, fsVars, otherVars,
                   steps, agent, lastExec>>

\* a cancelled confirm leaves configureAuth undefined, which is falsy; on
\* yes, `await open(url)` starts the browser opener and resolves as soon as
\* the child is spawned (open waits for its exit only with { wait: true })
promptConfigureAuth ==
    /\ pc = <<"main", "configureAuth">>
    /\ asked' = asked \cup {<<"main", "configureAuth">>}
    /\ \E answer \in BOOLEAN :
          /\ configureAuth' = answer
          /\ pc' = IF answer THEN <<"main", "tokens">>
                             ELSE <<"createProject", "preflight">>
          /\ running' = IF answer THEN running \cup {"browser"} ELSE running
    /\ UNCHANGED <<claudeReady, modalUsername, vercelUsername, username,
                   projectName, appDescription, modalKey, modalSecret,
                   promptVars, histVars, output, exitCode, fsVars, otherVars,
                   steps, agent, lastExec>>

\* the browser opener ends, at a moment of its own choosing while the
\* process that started it lives
browserExit ==
    /\ pc # <<"main", "exited">>
    /\ "browser" \in running
    /\ running' = running \ {"browser"}
    /\ UNCHANGED <<pc, mainVars, promptVars, histVars, asked, output, exitCode,
                   fsVars, otherVars, steps, agent, lastExec>>

\* the two token prompts have no validator: an empty submission, or a
\* cancel, leaves the `|| ""` default
promptTokens ==
    /\ pc = <<"main", "tokens">>
    /\ asked' = asked \cup {<<"main", "modalKey">>, <<"main", "modalSecret">>}
    /\ \E key \in KeyInputs, secret \in SecretInputs :
          /\ modalKey' = key
          /\ modalSecret' = secret
    /\ pc' = <<"createProject", "preflight">>
    /\ UNCHANGED <<claudeReady, modalUsername, vercelUsername, username,
                   projectName, appDescription, configureAuth,
                   promptVars, histVars, output, exitCode, fsVars, otherVars, postVars>>

----------------------------------------------------------------------------
(* Strings of copyDir and createProject *)

StartsWith(s, t) == Len(s) >= Len(t) /\ SubSeq(s, 1, Len(t)) = t
EndsWith(s, t) ==
    Len(s) >= Len(t) /\ SubSeq(s, Len(s) - Len(t) + 1, Len(s)) = t

\* s.replace(/tok/g, rep): leftmost non-overlapping occurrences
RECURSIVE ReplaceAll(_, _, _)
ReplaceAll(s, tok, rep) ==
    IF s = <<>> THEN <<>>
    ELSE IF StartsWith(s, tok)
    THEN rep \o ReplaceAll(SubSeq(s, Len(tok) + 1, Len(s)), tok, rep)
    ELSE <<Head(s)>> \o ReplaceAll(Tail(s), tok, rep)

\* s.split("-")
RECURSIVE Split(_, _)
Split(s, acc) ==
    IF s = <<>> THEN <<acc>>
    ELSE IF Head(s) = "-" THEN <<acc>> \o Split(Tail(s), <<>>)
    ELSE Split(Tail(s), Append(acc, Head(s)))

LowerLetters == <<"a", "b", "c", "d", "e", "f", "g", "h", "i", "j", "k", "l", "m",
                  "n", "o", "p", "q", "r", "s", "t", "u", "v", "w", "x", "y", "z">>
UpperLetters == <<"A", "B", "C", "D", "E", "F", "G", "H", "I", "J", "K", "L", "M",
                  "N", "O", "P", "Q", "R", "S", "T", "U", "V", "W", "X", "Y", "Z">>

toUpperCase(c) ==
    IF \E i \in 1..26 : LowerLetters[i] = c
    THEN UpperLetters[CHOOSE i \in 1..26 : LowerLetters[i] = c]
    ELSE c

RECURSIVE Join(_)
Join(words) == IF words = <<>> THEN <<>> ELSE Head(words) \o Join(Tail(words))

toPascalCase(str) ==
    LET words == Split(str, <<>>)
        cap(word) == IF word = <<>> THEN <<>>
                     ELSE <<toUpperCase(Head(word))>> \o Tail(word)
    IN Join([i \in 1..Len(words) |-> cap(words[i])])

TokProjectName ==
    <<"{", "{", "p", "r", "o", "j", "e", "c", "t", "N", "a", "m", "e", "}", "}">>
TokProjectNamePascal ==
    <<"{", "{", "p", "r", "o", "j", "e", "c", "t", "N", "a", "m", "e",
      "P", "a", "s", "c", "a", "l", "}", "}">>

\* (variant: the two patterns lack the g flag, so that each replace call
\* stops at the first occurrence)
substituteLineFirst(line, name) ==
    LET RECURSIVE First(_, _, _)
        First(s, tok, rep) ==
            IF s = <<>> THEN <<>>
            ELSE IF StartsWith(s, tok)
            THEN rep \o SubSeq(s, Len(tok) + 1, Len(s))
            ELSE <<Head(s)>> \o First(Tail(s), tok, rep)
    IN First(First(line, TokProjectName, name),
             TokProjectNamePascal, toPascalCase(name))

\* the two content.replace calls of copyDir, on one line of the file (a
\* token holds no line break, so the lines are substituted independently)
substituteLine(line, name) ==
    ReplaceAll(ReplaceAll(line, TokProjectName, name),
               TokProjectNamePascal, toPascalCase(name))

\* a file's content is the sequence of its lines
substitute(content, name) ==
    [i \in 1..Len(content) |-> substituteLine(content[i], name)]

----------------------------------------------------------------------------
(* File names and trees.  A name is a string, a path the sequence of names *)
(* below the root, a tree the set of its directories and the content of    *)
(* its files.                                                              *)

Frontend == <<"f", "r", "o", "n", "t", "e", "n", "d">>
NodeModules == <<"n", "o", "d", "e", "_", "m", "o", "d", "u", "l", "e", "s">>
DotVenv == <<".", "v", "e", "n", "v">>
PyCache == <<"_", "_", "p", "y", "c", "a", "c", "h", "e", "_", "_">>
DotGit == <<".", "g", "i", "t">>
PnpmLock == <<"p", "n", "p", "m", "-", "l", "o", "c", "k", ".", "y", "a", "m", "l">>
UvLock == <<"u", "v", ".", "l", "o", "c", "k">>
Gitignore == <<"g", "i", "t", "i", "g", "n", "o", "r", "e">>
DotGitignore == <<".", "g", "i", "t", "i", "g", "n", "o", "r", "e">>
DotHbs == <<".", "h", "b", "s">>
AHbs == <<"a", ".", "h", "b", "s">>
MJs == <<"m", ".", "j", "s">>
EnvLocal == <<".", "e", "n", "v", ".", "l", "o", "c", "a", "l">>
AppSpecMd == <<"a", "p", "p", "_", "s", "p", "e", "c", ".", "m", "d">>
ProgressTxt == <<"c", "l", "a", "u", "d", "e", "-", "p", "r", "o", "g", "r", "e",
                 "s", "s", ".", "t", "x", "t">>
OldTxt == <<"o", "l", "d", ".", "t", "x", "t">>

\* the names copyDir skips
Excluded == {NodeModules, DotVenv, PyCache, DotGit, PnpmLock, UvLock}

EmptyFiles == [p \in {} |-> <<>>]

Put(files, path, content) ==
    [p \in DOMAIN files \cup {path} |-> IF p = path THEN content ELSE files[p]]

Prefixes(path) == { SubSeq(path, 1, k) : k \in 1..Len(path) }

\* the names readdirSync(dir) lists
readdirSync(tree, dir) ==
    { p[Len(p)] : p \in { q \in tree.dirs \cup DOMAIN tree.files :
                            /\ Len(q) = Len(dir) + 1
                            /\ SubSeq(q, 1, Len(dir)) = dir } }

\* The template trees the generator may ship.  Every one holds frontend/,
\* where createProject writes the environment file.
TemplateA ==
    [dirs |-> {<<Frontend>>, <<NodeModules>>},
     files |-> (<<Gitignore>> :> <<NodeModules>>)
            @@ (<<UvLock>> :> <<<<"l">>>>)
            @@ (<<NodeModules, MJs>> :> <<<<"m">>>>)
            @@ (<<Frontend, AHbs>> :>
                  <<TokProjectName \o <<"!">> \o TokProjectNamePascal,
                    <<"{", "{", "x", "}", "}">>>>)]

TemplateB ==
    [dirs |-> {<<Frontend>>, <<Frontend, DotVenv>>, <<DotGit>>},
     files |-> (<<Frontend, MJs>> :> <<TokProjectName>>)
            @@ (<<Frontend, DotVenv, MJs>> :> <<<<"v">>>>)
            @@ (<<DotGit, MJs>> :> <<<<"g">>>>)]

\* a tree in which two entries of one directory translate to the same
\* destination name
TemplateC ==
    [dirs |-> {<<Frontend>>},
     files |-> (<<Gitignore>> :> <<<<"n">>>>)
            @@ (<<DotGitignore>> :> <<<<"d">>>>)]

Templates == {TemplateA, TemplateB, TemplateC}

\* what cwd/projectName may be before the run: absent, an empty directory,
\* or a directory that holds a file
AbsentTarget == [exists |-> FALSE, dirs |-> {}, files |-> EmptyFiles]
EmptyTarget == [exists |-> TRUE, dirs |-> {}, files |-> EmptyFiles]
UsedTarget ==
    [exists |-> TRUE, dirs |-> {},
     files |-> (<<OldTxt>> :> <<<<"o", "l", "d">>>>)]
InitialTargets == {AbsentTarget, EmptyTarget, UsedTarget}

----------------------------------------------------------------------------
(* node:fs on the target directory.  Paths are relative to cwd/projectName;*)
(* <<>> is the target directory itself.  An operation yields the new tree  *)
(* and whether it threw.                                                   *)

IsDir(fs, path) == fs.exists /\ (path = <<>> \/ path \in fs.dirs)
IsFile(fs, path) == path \in DOMAIN fs.files

Ok(fs) == [fs |-> fs, err |-> FALSE]
Threw(fs) == [fs |-> fs, err |-> TRUE]

\* (variant: mkdirSync without { recursive: true }, which fails on a
\* directory that exists)
mkdirSyncExclusive(fs, path) ==
    IF IsDir(fs, path) \/ \E q \in Prefixes(path) : IsFile(fs, q)
    THEN Threw(fs)
    ELSE Ok([fs EXCEPT !.exists = TRUE, !.dirs = @ \cup Prefixes(path)])

\* mkdirSync(path, { recursive: true })
mkdirSync(fs, path) ==
    IF \E q \in Prefixes(path) : IsFile(fs, q)
    THEN Threw(fs)
    ELSE Ok([fs EXCEPT !.exists = TRUE, !.dirs = @ \cup Prefixes(path)])

\* writeFileSync(path, content) and copyFileSync(src, path)
writeFileSync(fs, path, content) ==
    IF \/ IsDir(fs, path)
       \/ ~IsDir(fs, SubSeq(path, 1, Len(path) - 1))
    THEN Threw(fs)
    ELSE Ok([fs EXCEPT !.files = Put(@, path, content)])

\* join(dest, name); an empty name is the directory itself
join(dest, name) == IF name = <<>> THEN dest ELSE Append(dest, name)

\* destPath.slice(0, -4) cuts the last four characters of the path
sliceHbs(dest, name) == join(dest, SubSeq(name, 1, Len(name) - 4))

\* the body of copyDir's loop for a file entry
copyFile(tree, src, dest, name, projName, fs) ==
    LET srcPath == Append(src, name)
        destName == IF name = Gitignore THEN DotGitignore ELSE name
    IN IF EndsWith(name, DotHbs)
       THEN writeFileSync(fs, sliceHbs(dest, destName),
                          substitute(tree.files[srcPath], projName))
       ELSE writeFileSync(fs, join(dest, destName), tree.files[srcPath])

\* copyDir(src, dest, projectName): the trees it can leave, one for each
\* order in which readdirSync may list the entries; a throw ends the walk
RECURSIVE copyDir(_, _, _, _, _)
RECURSIVE copyEntries(_, _, _, _, _, _)
copyEntries(tree, src, dest, names, projName, fs) ==
    IF names = {} THEN {Ok(fs)}
    ELSE UNION {
           LET rest == names \ {name}
               after == IF name \in Excluded THEN {Ok(fs)}
                        ELSE IF Append(src, name) \in tree.dirs
                        THEN copyDir(tree, Append(src, name),
                                     Append(dest, name), projName, fs)
                        ELSE {copyFile(tree, src, dest, name, projName, fs)}
           IN UNION { IF r.err THEN {r}
                      ELSE copyEntries(tree, src, dest, rest, projName, r.fs)
                      : r \in after }
           : name \in names }

copyDir(tree, src, dest, projName, fs) ==
    LET made == mkdirSync(fs, dest)
    IN IF made.err THEN {made}
       ELSE copyEntries(tree, src, dest, readdirSync(tree, src), projName,
                        made.fs)

----------------------------------------------------------------------------
(* The files createProject generates *)

UrlScheme == <<"h", "t", "t", "p", "s", ":", "/", "/">>
UrlApp == <<"-", "b", "a", "c", "k", "e", "n", "d", "-", "f", "a", "s", "t",
            "a", "p", "i", "-", "a", "p", "p">>
UrlDev == <<"-", "d", "e", "v">>
UrlHost == <<".", "m", "o", "d", "a", "l", ".", "r", "u", "n">>

devApiUrl(user, name) ==
    UrlScheme \o user \o <<"-", "-">> \o name \o UrlApp \o UrlDev \o UrlHost
\* (variant: the production URL keeps the "-dev" segment)
prodApiUrlKeepsDev(user, name) ==
    UrlScheme \o user \o <<"-", "-">> \o name \o UrlApp \o UrlDev \o UrlHost

prodApiUrl(user, name) ==
    UrlScheme \o user \o <<"-", "-">> \o name \o UrlApp \o UrlHost

\* A generated file is the sequence of its lines; the fixed text of a
\* template literal is written as one symbol where the code interpolates
\* nothing into it.
\* (variant: `||` in place of `&&`)
authSectionEither(key, secret) ==
    IF Truthy(key) \/ Truthy(secret)
    THEN << <<"VITE_MODAL_KEY=">> \o key, <<"VITE_MODAL_SECRET=">> \o secret >>
    ELSE << <<"# Proxy auth not configured - API is publicly accessible">>,
            <<"# Add these for production security:">>,
            <<"#", " ", "VITE_MODAL_KEY=", "w", "k", "-", "x", "x", "x">>,
            <<"#", " ", "VITE_MODAL_SECRET=", "w", "s", "-", "x", "x", "x">> >>

authSection(key, secret) ==
    IF Truthy(key) /\ Truthy(secret)
    THEN << <<"VITE_MODAL_KEY=">> \o key, <<"VITE_MODAL_SECRET=">> \o secret >>
    ELSE << <<"# Proxy auth not configured - API is publicly accessible">>,
            <<"# Add these for production security:">>,
            <<"#", " ", "VITE_MODAL_KEY=", "w", "k", "-", "x", "x", "x">>,
            <<"#", " ", "VITE_MODAL_SECRET=", "w", "s", "-", "x", "x", "x">> >>

envLocalContent(user, name, key, secret) ==
    << <<"# Modal API Configuration (Development)">>,
       <<"VITE_API_URL=">> \o devApiUrl(user, name) >>
    \o authSection(key, secret)
    \o << <<>>,
          <<"# Production URL (for reference, configure in Vercel)">>,
          <<"#", " ", "VITE_API_URL=">> \o prodApiUrl(user, name),
          <<>> >>

generateAppSpec(name, description) ==
    << <<"#", " ">> \o name,
       <<>>,
       description,
       <<>>,
       <<"## Tech Stack ... ## Project Structure">>,
       name \o <<"/">>,
       <<"... ## Development ... ## Guidelines for AI Agent ...">>,
       <<>> >>

\* (variant: the description is left out of the progress log)
progressContentBare(name, description) ==
    << <<"#", " ">> \o name \o <<" - Development Progress">>,
       <<>>,
       <<"## Session Notes">>,
       <<"(AI agent will append notes here after each session)">>,
       <<>>,
       <<"---">>,
       <<>> >>

progressContent(name, description) ==
    << <<"#", " ">> \o name \o <<" - Development Progress">>,
       <<>>,
       <<"## App Description">>,
       description,
       <<>>,
       <<"## Session Notes">>,
       <<"(AI agent will append notes here after each session)">>,
       <<>>,
       <<"---">>,
       <<>> >>

----------------------------------------------------------------------------
(* createProject, one step for each file-system call or subprocess, and    *)
(* main's catch of what it throws                                          *)

\* (variant: the catch of main logs the error and returns)
ThrowsLogged(message) ==
    /\ output' = output \cup {"Error:", message}
    /\ pc' = <<"main", "returned">>
    /\ UNCHANGED exitCode

\* main: catch (error) { console.error("Error:", message); process.exit(1) }
Throws(message) == Exit1({"Error:", message})

NotEmptyMessage == "Directory already exists and is not empty."
NoTemplateMessage == "Could not find template directory"

\* (variant: only the subdirectories of the target are counted)
preflightCountsDirs(fs) == fs.exists /\ fs.dirs # {}

\* existsSync(targetDir) && readdirSync(targetDir).length > 0
preflightFails(fs) == fs.exists /\ readdirSync(fs, <<>>) # {}

preflight ==
    /\ pc = <<"createProject", "preflight">>
    /\ IF preflightFails(target)
       THEN Throws(NotEmptyMessage)
       ELSE /\ pc' = <<"createProject", "findTemplate">>
            /\ output' = output \cup {"Creating project in"}
            /\ UNCHANGED exitCode
    /\ UNCHANGED <<mainVars, promptVars, histVars, asked, fsVars, otherVars, postVars>>

\* (variant: the target directory is made before the template is looked up)
findTemplateAfterMkdir ==
    /\ pc = <<"createProject", "findTemplate">>
    /\ target' = mkdirSync(target, <<>>).fs
    /\ IF ~templateFound
       THEN Throws(NoTemplateMessage)
       ELSE /\ pc' = <<"createProject", "copyDir">>
            /\ UNCHANGED <<output, exitCode>>
    /\ UNCHANGED <<mainVars, promptVars, histVars, asked, template,
                   templateFound, postVars, otherVars>>

findTemplate ==
    /\ pc = <<"createProject", "findTemplate">>
    /\ IF ~templateFound
       THEN Throws(NoTemplateMessage)
       ELSE /\ pc' = <<"createProject", "copyDir">>
            /\ UNCHANGED <<output, exitCode>>
    /\ UNCHANGED <<mainVars, promptVars, histVars, asked, fsVars, otherVars, postVars>>

\* mkdirSync(targetDir, { recursive: true }); copyDir(templateDir, targetDir)
materialize ==
    /\ pc = <<"createProject", "copyDir">>
    /\ LET made == mkdirSync(target, <<>>)
       IN \E r \in copyDir(template, <<>>, <<>>, projectName, made.fs) :
             /\ target' = r.fs
             /\ IF r.err
                THEN Throws("copyDir failed")
                ELSE /\ pc' = <<"createProject", "envLocal">>
                     /\ UNCHANGED <<output, exitCode>>
    /\ UNCHANGED <<mainVars, promptVars, histVars, asked, template,
                   templateFound, postVars, otherVars>>

\* one writeFileSync of createProject; `next` is where it goes on
WriteGenerated(step, path, content, line, next) ==
    /\ pc = <<"createProject", step>>
    /\ LET r == writeFileSync(target, path, content)
       IN /\ target' = r.fs
          /\ IF r.err
             THEN Throws("writeFileSync failed")
             ELSE /\ pc' = <<"createProject", next>>
                  /\ output' = output \cup line
                  /\ UNCHANGED exitCode
    /\ UNCHANGED <<mainVars, promptVars, histVars, asked, template,
                   templateFound, postVars, otherVars>>

writeEnvLocal ==
    WriteGenerated("envLocal", <<Frontend, EnvLocal>>,
                   envLocalContent(modalUsername, projectName,
                                   modalKey, modalSecret),
                   {}, "appSpec")

writeAppSpec ==
    WriteGenerated("appSpec", <<AppSpecMd>>,
                   generateAppSpec(projectName, appDescription),
                   {"Generating app_spec.md..."}, "progress")

writeProgress ==
    WriteGenerated("progress", <<ProgressTxt>>,
                   progressContent(projectName, appDescription),
                   {"Creating claude-progress.txt..."}, "gitInit")

----------------------------------------------------------------------------
(* createProject: the convenience steps.  Each execSync blocks until the   *)
(* command ends and throws when it fails; every try has its own catch.     *)

\* (variant: exec(cmd) in place of execSync(cmd), so that the command is
\* started and not waited for)
ExecDetached(step, cmd, onOk, onFail, warning) ==
    /\ pc = <<"createProject", step>>
    /\ steps' = Append(steps, cmd)
    /\ running' = running \cup {cmd}
    /\ pc' = <<"createProject", onOk>>
    /\ lastExec' = "ok"
    /\ UNCHANGED <<mainVars, promptVars, histVars, asked, output, exitCode,
                   fsVars, otherVars, agent>>

\* execSync(cmd) inside try { ... } catch { warn }: `onOk` and `onFail` are
\* the steps that follow, `warning` what the catch prints
Exec(step, cmd, onOk, onFail, warning) ==
    /\ pc = <<"createProject", step>>
    /\ steps' = Append(steps, cmd)
    /\ \E ok \in BOOLEAN :
          IF ok
          THEN /\ pc' = <<"createProject", onOk>>
               /\ lastExec' = "ok"
               /\ UNCHANGED output
          ELSE /\ pc' = <<"createProject", onFail>>
               /\ lastExec' = "failed"
               /\ output' = output \cup warning
    /\ UNCHANGED <<mainVars, promptVars, histVars, asked, exitCode, fsVars, otherVars,
                   agent, running>>

gitInit == Exec("gitInit", "git init", "gitAdd", "pnpmRoot", {})
gitAdd == Exec("gitAdd", "git add -A", "pnpmRoot", "pnpmRoot", {})
\* (variant: a failed root install skips the other three installs)
pnpmRootStops ==
    Exec("pnpmRoot", "pnpm install", "pnpmFrontend", "gitAddFinal",
         {"Warning: Could not install root dependencies. Run 'pnpm install' manually."})

pnpmRoot ==
    Exec("pnpmRoot", "pnpm install", "pnpmFrontend", "pnpmFrontend",
         {"Warning: Could not install root dependencies. Run 'pnpm install' manually."})
pnpmFrontend ==
    Exec("pnpmFrontend", "pnpm install in frontend", "uvBackend", "uvBackend",
         {"Warning: Could not install frontend dependencies. Run 'pnpm install' in frontend/ manually."})
\* (variant: the catch of the backend install is empty)
uvBackendSilent == Exec("uvBackend", "uv sync in backend", "uvAgent", "uvAgent", {})

uvBackend ==
    Exec("uvBackend", "uv sync in backend", "uvAgent", "uvAgent",
         {"Warning: Could not install backend dependencies. Run 'uv sync' in backend/ manually."})
uvAgent ==
    Exec("uvAgent", "uv sync in agent", "gitAddFinal", "gitAddFinal",
         {"Warning: Could not install agent dependencies. Run 'uv sync' in agent/ manually."})
gitAddFinal ==
    Exec("gitAddFinal", "git add -A", "gitCommit", "return", {})
\* (variant: the commit runs outside any try)
gitCommitUncaught ==
    /\ pc = <<"createProject", "gitCommit">>
    /\ steps' = Append(steps, "git commit")
    /\ \E ok \in BOOLEAN :
          IF ok
          THEN /\ pc' = <<"createProject", "return">>
               /\ lastExec' = "ok"
               /\ UNCHANGED <<output, exitCode>>
          ELSE /\ lastExec' = "failed"
               /\ Throws("Command failed: git commit")
    /\ UNCHANGED <<mainVars, promptVars, histVars, asked, fsVars, otherVars,
                   agent, running>>

gitCommit == Exec("gitCommit", "git commit", "return", "return", {})

----------------------------------------------------------------------------
(* main, after createProject has returned *)

ProxyNote == "Note: Proxy auth not configured (API publicly accessible)"

\* the summary, and the prompt "Launch the AI agent now?"
promptLaunch ==
    /\ pc = <<"createProject", "return">>
    /\ output' = output \cup {"Scaffolded", "Project created!", "Next steps:"}
                        \cup (IF ~Truthy(modalKey) THEN {ProxyNote} ELSE {})
    /\ asked' = asked \cup {<<"main", "launch">>}
    /\ \E launch \in BOOLEAN :
          IF launch
          THEN /\ agent' = "running"
               /\ running' = running \cup {"agent"}
               /\ pc' = <<"main", "agent">>
          ELSE /\ pc' = <<"main", "returned">>
               /\ UNCHANGED <<agent, running>>
    /\ UNCHANGED <<mainVars, promptVars, histVars, exitCode, fsVars, otherVars, steps, lastExec>>

\* (variant: the error handler ends the process with exit code 1)
agentErrorExits ==
    /\ pc = <<"main", "agent">>
    /\ agent' = "failed"
    /\ running' = running \ {"agent"}
    /\ Exit1({"Failed to start agent:",
              "Run manually: cd agent && uv run agent"})
    /\ UNCHANGED <<mainVars, promptVars, histVars, asked, fsVars, otherVars, steps, lastExec>>

\* agent.on("error", ...): the child could not be started
agentError ==
    /\ pc = <<"main", "agent">>
    /\ agent' = "failed"
    /\ running' = running \ {"agent"}
    /\ output' = output \cup {"Failed to start agent:",
                              "Run manually: cd agent && uv run agent"}
    /\ pc' = <<"main", "returned">>
    /\ UNCHANGED <<mainVars, promptVars, histVars, asked, exitCode, fsVars, otherVars, steps, lastExec>>

\* the child ran and ended; the process ends with it
agentExit ==
    /\ pc = <<"main", "agent">>
    /\ agent' = "ended"
    /\ running' = running \ {"agent"}
    /\ pc' = <<"main", "returned">>
    /\ UNCHANGED <<mainVars, promptVars, histVars, asked, output, exitCode,
                   fsVars, otherVars, steps, lastExec>>

----------------------------------------------------------------------------
(* The specification *)

Init ==
    /\ pc = <<"claude", "detect">>
    /\ claudeReady = FALSE
    /\ modalUsername = Null
    /\ vercelUsername = Null
    /\ username = Null
    /\ projectName = Null
    /\ appDescription = Null
    /\ configureAuth = FALSE
    /\ modalKey = <<>>
    /\ modalSecret = <<>>
    /\ attempts = 0
    /\ rejected = Null
    /\ calls = [t \in Tools |-> [k \in Kinds |-> 0]]
    /\ toolState = [t \in Tools |->
                      [installed |-> "unchecked", identity |-> "unchecked"]]
    /\ asked = {}
    /\ output = {}
    /\ exitCode = 0
    /\ template \in Templates
    /\ templateFound \in BOOLEAN
    /\ target \in InitialTargets
    /\ steps = <<>>
    /\ agent = "none"
    /\ lastExec = "none"
    /\ running = {}
    /\ fileContent = <<>>
    /\ once = <<>>
    /\ twice = <<>>
    /\ runPc = [r \in Runs |-> "none"]
    /\ wrote = [r \in Runs |-> FALSE]
    /\ argv = Null

Next ==
    \/ isClaudeCodeInstalled
    \/ isClaudeCodeLoggedIn
    \/ \E t \in AuthTools : isInstalled(t)
    \/ \E t \in AuthTools : promptInstall(t)
    \/ \E t \in AuthTools : install(t)
    \/ \E t \in AuthTools : getUsername(t)
    \/ \E t \in AuthTools : promptLogin(t)
    \/ \E t \in AuthTools : login(t)
    \/ \E t \in AuthTools : recheck(t)
    \/ promptProjectName
    \/ promptDescription
    \/ promptConfigureAuth
    \/ browserExit
    \/ promptTokens
    \/ preflight
    \/ findTemplate
    \/ materialize
    \/ writeEnvLocal
    \/ writeAppSpec
    \/ writeProgress
    \/ gitInit
    \/ gitAdd
    \/ pnpmRoot
    \/ pnpmFrontend
    \/ uvBackend
    \/ uvAgent
    \/ gitAddFinal
    \/ gitCommit
    \/ promptLaunch
    \/ agentError
    \/ agentExit

Spec == Init /\ [][Next]_vars

----------------------------------------------------------------------------
(* SpecArgv: the same program, started as `pnpm create fastreact` or as    *)
(* `pnpm create fastreact <name>`.  main() never reads process.argv, so    *)
(* the actions are those of Spec; the template and the target are fixed to *)
(* one case each.                                                          *)

\* the positional argument: none, or a valid name
ArgvInputs == {Null, Demo}

InitArgv ==
    /\ pc = <<"claude", "detect">>
    /\ argv \in ArgvInputs
    /\ claudeReady = FALSE
    /\ modalUsername = Null
    /\ vercelUsername = Null
    /\ username = Null
    /\ projectName = Null
    /\ appDescription = Null
    /\ configureAuth = FALSE
    /\ modalKey = <<>>
    /\ modalSecret = <<>>
    /\ attempts = 0
    /\ rejected = Null
    /\ calls = [t \in Tools |-> [k \in Kinds |-> 0]]
    /\ toolState = [t \in Tools |->
                      [installed |-> "unchecked", identity |-> "unchecked"]]
    /\ asked = {}
    /\ output = {}
    /\ exitCode = 0
    /\ template = TemplateA
    /\ templateFound = TRUE
    /\ target = AbsentTarget
    /\ steps = <<>>
    /\ agent = "none"
    /\ lastExec = "none"
    /\ running = {}
    /\ fileContent = <<>>
    /\ once = <<>>
    /\ twice = <<>>
    /\ runPc = [r \in Runs |-> "none"]
    /\ wrote = [r \in Runs |-> FALSE]

SpecArgv == InitArgv /\ [][Next]_vars

----------------------------------------------------------------------------
(* SpecSubst: the substitution copyDir applies to a .hbs file, applied to  *)
(* the content of the file and then again to its own result.               *)

\* pieces a template line is put together from
MaxChunks == 3

\* the two tokens, plain text, and the two halves of a token around a gap
SubstChunks ==
    {TokProjectName, TokProjectNamePascal, <<"x">>,
     <<"{", "{", "p", "r", "o", "j", "e", "c", "t", "N">>,
     <<"m", "e", "}", "}">>}

RECURSIVE Concat(_)
Concat(chunks) ==
    IF chunks = <<>> THEN <<>> ELSE Head(chunks) \o Concat(Tail(chunks))

\* one-line files
SubstContents == { <<Concat(cs)>> : cs \in SeqsUpTo(SubstChunks, MaxChunks) }

ValidNames == { n \in NameInputs : validateProjectName(n) = "true" }

InitSubst ==
    /\ pc = <<"subst", "read">>
    /\ projectName \in ValidNames
    /\ fileContent \in SubstContents
    /\ once = <<>>
    /\ twice = <<>>
    /\ runPc = [r \in Runs |-> "none"]
    /\ wrote = [r \in Runs |-> FALSE]
    /\ argv = Null
    /\ claudeReady = FALSE
    /\ modalUsername = Null
    /\ vercelUsername = Null
    /\ username = Null
    /\ appDescription = Null
    /\ configureAuth = FALSE
    /\ modalKey = <<>>
    /\ modalSecret = <<>>
    /\ attempts = 0
    /\ rejected = Null
    /\ calls = [t \in Tools |-> [k \in Kinds |-> 0]]
    /\ toolState = [t \in Tools |->
                      [installed |-> "unchecked", identity |-> "unchecked"]]
    /\ asked = {}
    /\ output = {}
    /\ exitCode = 0
    /\ template = TemplateA
    /\ templateFound = TRUE
    /\ target = EmptyTarget
    /\ steps = <<>>
    /\ agent = "none"
    /\ lastExec = "none"
    /\ running = {}

\* content.replace(...).replace(...) on the file read
substOnce ==
    /\ pc = <<"subst", "read">>
    /\ once' = substitute(fileContent, projectName)
    /\ pc' = <<"subst", "once">>
    /\ UNCHANGED <<mainVars, promptVars, histVars, asked, output, exitCode,
                   fsVars, postVars, raceVars, argv, fileContent, twice>>

\* the same two replace calls on the content already substituted
substTwice ==
    /\ pc = <<"subst", "once">>
    /\ twice' = substitute(once, projectName)
    /\ pc' = <<"subst", "twice">>
    /\ UNCHANGED <<mainVars, promptVars, histVars, asked, output, exitCode,
                   fsVars, postVars, raceVars, argv, fileContent, once>>

NextSubst == substOnce \/ substTwice

SpecSubst == InitSubst /\ [][NextSubst]_vars

----------------------------------------------------------------------------
(* SpecRace: two invocations of the generator, each its own process, call  *)
(* createProject with the same project name in the same working directory. *)
(* The file system is what they share; the system calls of the two         *)
(* processes interleave freely.                                            *)

Todo == <<"t", "o", "d", "o">>

InitRace ==
    /\ pc = <<"race", "createProject">>
    /\ projectName = Demo
    /\ modalUsername = Alice
    /\ vercelUsername = Alice
    /\ appDescription = Todo
    /\ claudeReady = TRUE
    /\ username = Alice
    /\ configureAuth = FALSE
    /\ modalKey = <<>>
    /\ modalSecret = <<>>
    /\ attempts = 0
    /\ rejected = Null
    /\ calls = [t \in Tools |-> [k \in Kinds |-> 0]]
    /\ toolState = [t \in Tools |->
                      [installed |-> "unchecked", identity |-> "unchecked"]]
    /\ asked = {}
    /\ output = {}
    /\ exitCode = 0
    /\ template \in Templates
    /\ templateFound \in BOOLEAN
    /\ target \in InitialTargets
    /\ steps = <<>>
    /\ agent = "none"
    /\ lastExec = "none"
    /\ running = {}
    /\ fileContent = <<>>
    /\ once = <<>>
    /\ twice = <<>>
    /\ runPc = [r \in Runs |-> "preflight"]
    /\ wrote = [r \in Runs |-> FALSE]
    /\ argv = Null

\* run r throws: its own main catches, prints and exits
runThrows(r, message) ==
    /\ runPc' = [runPc EXCEPT ![r] = "exited"]
    /\ output' = output \cup {"Error:", message}

runUnchanged ==
    UNCHANGED <<pc, mainVars, promptVars, histVars, asked, exitCode, template,
                templateFound, postVars, substVars, argv>>

\* existsSync(targetDir) / readdirSync(targetDir).length > 0
runPreflight(r) ==
    /\ runPc[r] = "preflight"
    /\ IF preflightFails(target)
       THEN runThrows(r, NotEmptyMessage)
       ELSE /\ runPc' = [runPc EXCEPT ![r] = "findTemplate"]
            /\ UNCHANGED output
    /\ UNCHANGED <<target, wrote>>
    /\ runUnchanged

runFindTemplate(r) ==
    /\ runPc[r] = "findTemplate"
    /\ IF ~templateFound
       THEN runThrows(r, NoTemplateMessage)
       ELSE /\ runPc' = [runPc EXCEPT ![r] = "copyDir"]
            /\ UNCHANGED output
    /\ UNCHANGED <<target, wrote>>
    /\ runUnchanged

\* mkdirSync(targetDir, { recursive: true }); copyDir(...)
runMaterialize(r) ==
    /\ runPc[r] = "copyDir"
    /\ LET made == mkdirSync(target, <<>>)
       IN \E res \in copyDir(template, <<>>, <<>>, projectName, made.fs) :
             /\ target' = res.fs
             /\ IF res.err
                THEN runThrows(r, "copyDir failed")
                ELSE /\ runPc' = [runPc EXCEPT ![r] = "envLocal"]
                     /\ UNCHANGED output
    /\ wrote' = [wrote EXCEPT ![r] = TRUE]
    /\ runUnchanged

\* the three writeFileSync calls that follow copyDir
runGenerated(step) ==
    IF step = "envLocal"
    THEN [path |-> <<Frontend, EnvLocal>>, next |-> "appSpec",
          content |-> envLocalContent(modalUsername, projectName,
                                      modalKey, modalSecret)]
    ELSE IF step = "appSpec"
    THEN [path |-> <<AppSpecMd>>, next |-> "progress",
          content |-> generateAppSpec(projectName, appDescription)]
    ELSE [path |-> <<ProgressTxt>>, next |-> "returned",
          content |-> progressContent(projectName, appDescription)]

runWriteGenerated(r) ==
    /\ runPc[r] \in {"envLocal", "appSpec", "progress"}
    /\ LET g == runGenerated(runPc[r])
           res == writeFileSync(target, g.path, g.content)
       IN /\ target' = res.fs
          /\ IF res.err
             THEN runThrows(r, "writeFileSync failed")
             ELSE /\ runPc' = [runPc EXCEPT ![r] = g.next]
                  /\ UNCHANGED output
    /\ wrote' = [wrote EXCEPT ![r] = TRUE]
    /\ runUnchanged

NextRace ==
    \E r \in Runs :
        \/ runPreflight(r)
        \/ runFindTemplate(r)
        \/ runMaterialize(r)
        \/ runWriteGenerated(r)

SpecRace == InitRace /\ [][NextRace]_vars

----------------------------------------------------------------------------
(* Properties *)

EnvPath == <<Frontend, EnvLocal>>
EnvWritten == IsFile(target, EnvPath)
Exited == pc = <<"main", "exited">>
MainPrompts == {<<"main", "projectName">>, <<"main", "description">>,
                <<"main", "configureAuth">>, <<"main", "modalKey">>,
                <<"main", "modalSecret">>}

\* ^[a-z0-9-]+$
MatchesNamePattern(name) ==
    /\ Len(name) >= 1
    /\ \A i \in 1..Len(name) : name[i] \in LowerCase \cup Digits \cup {"-"}

\* C1: when createProject is called and cwd/projectName exists and holds an
\* entry, the call throws "already exists and is not empty" (main exits
\* with 1) and the directory is left exactly as it was.
C1_NonEmptyTargetUntouched ==
    [][ ( /\ pc = <<"createProject", "preflight">>
          /\ pc' # pc
          /\ target.exists
          /\ target.dirs \cup DOMAIN target.files # {} )
        => ( /\ target' = target
             /\ pc' = <<"main", "exited">>
             /\ exitCode' = 1
             /\ NotEmptyMessage \in output' ) ]_vars

C1_Witness ==
    /\ Exited
    /\ NotEmptyMessage \in output
    /\ target = UsedTarget

\* C2: the target directory is written, and createProject is entered, only
\* with a project name that matches ^[a-z0-9-]+$; "my app" is never the
\* project name, and while it is the rejected submission nothing has been
\* written.
C2_ValidNameBeforeAnyWrite ==
    [][ /\ (target' # target \/ pc'[1] = "createProject")
           => MatchesNamePattern(projectName')
        /\ projectName' # MyApp
        /\ rejected' = MyApp
           => (pc' = <<"main", "projectName">> /\ target' = target) ]_vars

C2_Witness ==
    /\ EnvWritten
    /\ projectName = Demo
    /\ MatchesNamePattern(projectName)

\* C3: the phases come in the order Claude Code, Modal, Vercel, prompts,
\* copyDir, environment file: nothing of Modal happens before Claude Code
\* is ready, nothing of Vercel before Modal is, no prompt of the session is
\* issued before the three tools are ready, the target is not written
\* before the prompts have completed, and the environment file exists only
\* once the template's directories have been copied.
Touched(t) ==
    \/ \E k \in Kinds : calls[t][k] > 0
    \/ \E q \in {"install", "login"} : <<t, q>> \in asked

PromptsCompleted ==
    /\ {<<"main", "projectName">>, <<"main", "description">>,
        <<"main", "configureAuth">>} \subseteq asked
    /\ Truthy(projectName)
    /\ Truthy(appDescription)
    /\ configureAuth =>
          {<<"main", "modalKey">>, <<"main", "modalSecret">>} \subseteq asked

CopyReturned ==
    \A d \in template.dirs :
        (\A i \in 1..Len(d) : d[i] \notin Excluded) => d \in target.dirs

C3_PhaseOrder ==
    /\ Touched("modal") => claudeReady
    /\ Touched("vercel") => Truthy(modalUsername)
    /\ asked \cap MainPrompts # {}
          => claudeReady /\ Truthy(modalUsername) /\ Truthy(vercelUsername)
    /\ target \notin InitialTargets => PromptsCompleted
    /\ EnvWritten => CopyReturned /\ PromptsCompleted

C3_Witness ==
    /\ EnvWritten
    /\ pc = <<"createProject", "appSpec">>
    /\ configureAuth

\* C4 (as stated, for the three tools): a tool found not installed is
\* prompted for; declining aborts, accepting runs the install command, a
\* failed install aborts, a successful one leads to the identity check.
InstallFlow(t) ==
    /\ toolState[t].installed = "no"
          => (pc = <<t, "promptInstall">> \/ <<t, "install">> \in asked)
    /\ (<<t, "install">> \in asked /\ calls[t]["install"] = 0
                                   /\ pc # <<t, "install">>)
          => (Exited /\ exitCode = 1 /\ InstallHint(t) \in output)
    /\ calls[t]["install"] > 0
          => (<<t, "install">> \in asked /\ toolState[t].installed = "no")
    /\ InstallFailedHint(t) \in output
          => (Exited /\ exitCode = 1 /\ calls[t]["identity"] = 0)
    /\ (calls[t]["install"] > 0 /\ InstallFailedHint(t) \notin output)
          => (pc = <<t, "identity">> \/ calls[t]["identity"] > 0)

C4_InstallFlowAllTools == \A t \in Tools : InstallFlow(t)

\* C4 (amended): Modal and Vercel follow the install flow; Claude Code found
\* not installed ends the run at once with exit code 1 and the install
\* hint, without a prompt and without an install command.
C4_InstallFlow ==
    /\ \A t \in AuthTools : InstallFlow(t)
    /\ calls["claude"]["install"] = 0
    /\ <<"claude", "install">> \notin asked
    /\ toolState["claude"].installed = "no"
          => /\ Exited /\ exitCode = 1
             /\ asked = {}
             /\ InstallHint("claude") \in output

C4_Witness ==
    /\ calls["modal"]["install"] = 1
    /\ calls["modal"]["identity"] = 1
    /\ toolState["modal"].installed = "no"
    /\ pc = <<"vercel", "promptInstall">>

\* C5 (as stated, for the three tools): a tool whose identity check fails is
\* prompted for; declining aborts, accepting runs the auth command, a failed
\* auth aborts, and after a successful one the identity is read again and
\* the tool is ready only if that reading is not empty.
UsernameOf(t) == IF t = "modal" THEN modalUsername ELSE vercelUsername

LoginFlow(t) ==
    /\ toolState[t].identity = "no"
          => (pc = <<t, "promptLogin">> \/ <<t, "login">> \in asked)
    /\ (<<t, "login">> \in asked /\ calls[t]["auth"] = 0
                                 /\ pc # <<t, "login">>)
          => (Exited /\ exitCode = 1 /\ LoginHint(t) \in output)
    /\ calls[t]["auth"] > 0
          => (<<t, "login">> \in asked /\ toolState[t].identity = "no")
    /\ LoginFailed(t) \in output => (Exited /\ exitCode = 1)
    /\ (calls[t]["auth"] > 0 /\ LoginFailed(t) \notin output)
          => (pc = <<t, "recheck">> \/ calls[t]["identity"] >= 3)
    /\ LoginHint(t) \in output => calls[t]["auth"] = 0

RecheckStep(t) ==
    pc = <<t, "recheck">>
    => IF Truthy(username')
       THEN UsernameOf(t)' = username' /\ ~Exited'
       ELSE Exited' /\ exitCode' = 1 /\ ~Truthy(UsernameOf(t)')

C5_LoginFlowAllTools == \A t \in Tools : LoginFlow(t)

\* C5 (amended): Modal and Vercel follow the login flow; Claude Code found
\* not working ends the run at once with exit code 1 and the login hint,
\* without a prompt and without an auth command.
C5_LoginFlow ==
    /\ [](\A t \in AuthTools : LoginFlow(t))
    /\ [][\A t \in AuthTools : RecheckStep(t)]_vars
    /\ [](/\ calls["claude"]["auth"] = 0
          /\ <<"claude", "login">> \notin asked
          /\ toolState["claude"].identity = "no"
                => /\ Exited /\ exitCode = 1
                   /\ asked = {}
                   /\ LoginHint("claude") \in output)

C5_Witness ==
    /\ calls["modal"]["auth"] = 1
    /\ calls["modal"]["identity"] = 3
    /\ toolState["modal"].identity = "no"
    /\ modalUsername = Alice
    /\ pc = <<"vercel", "detect">>

\* C6: in one run each install command and each auth command runs at most
\* once; after a failed install or login the run has ended with exit code
\* 1, nothing of a later phase has happened, and an ended run takes no
\* further step.
NoLaterPhase(t) ==
    /\ t = "modal" => ~Touched("vercel")
    /\ asked \cap MainPrompts = {}
    /\ target \in InitialTargets
    /\ steps = <<>>
    /\ agent = "none"

C6_NoRetry ==
    /\ [](\A t \in Tools :
            /\ calls[t]["install"] <= 1
            /\ calls[t]["auth"] <= 1
            /\ (InstallFailedHint(t) \in output \/ LoginFailed(t) \in output)
                  => (Exited /\ exitCode = 1 /\ NoLaterPhase(t)))
    /\ [][~Exited]_vars

C6_Witness ==
    /\ Exited
    /\ LoginFailed("vercel") \in output
    /\ calls["vercel"]["auth"] = 1
    /\ calls["modal"]["install"] = 1

\* C7: a tool whose first checks find it installed and with an identity gets
\* no install command, no auth command and no install or login prompt, only
\* its two detection commands; so with the three tools ready at the start
\* the prerequisite phase runs detection commands only.
ReadyAtStart(t) ==
    toolState[t].installed = "yes" /\ toolState[t].identity = "yes"

C7_ReadyToolsOnlyDetected ==
    \A t \in Tools :
        ReadyAtStart(t)
        => /\ calls[t]["install"] = 0
           /\ calls[t]["auth"] = 0
           /\ calls[t]["detect"] = 1
           /\ calls[t]["identity"] = 1
           /\ <<t, "install">> \notin asked
           /\ <<t, "login">> \notin asked

C7_Witness ==
    /\ \A t \in Tools : ReadyAtStart(t)
    /\ pc = <<"main", "projectName">>
    /\ \A t \in Tools : calls[t]["install"] = 0 /\ calls[t]["auth"] = 0

\* C8: the environment file holds the lines VITE_MODAL_KEY=<id> and
\* VITE_MODAL_SECRET=<secret> exactly when the id and the secret are both
\* non-empty; otherwise it holds the commented placeholder of both keys; it
\* never holds one of the two keys uncommented without the other.
Env == target.files[EnvPath]
HasLine(content, line) == \E i \in 1..Len(content) : content[i] = line
Uncommented(content, key) ==
    \E i \in 1..Len(content) : content[i] # <<>> /\ content[i][1] = key
Commented(content, key) ==
    \E i \in 1..Len(content) :
        /\ Len(content[i]) >= 3
        /\ content[i][1] = "#" /\ content[i][2] = " " /\ content[i][3] = key

C8_CredentialPair ==
    EnvWritten
    => LET both == modalKey # <<>> /\ modalSecret # <<>>
       IN /\ both <=> /\ HasLine(Env, <<"VITE_MODAL_KEY=">> \o modalKey)
                      /\ HasLine(Env, <<"VITE_MODAL_SECRET=">> \o modalSecret)
          /\ ~both => /\ Commented(Env, "VITE_MODAL_KEY=")
                      /\ Commented(Env, "VITE_MODAL_SECRET=")
                      /\ ~Uncommented(Env, "VITE_MODAL_KEY=")
                      /\ ~Uncommented(Env, "VITE_MODAL_SECRET=")
          /\ Uncommented(Env, "VITE_MODAL_KEY=")
                <=> Uncommented(Env, "VITE_MODAL_SECRET=")

C8_Witness ==
    /\ EnvWritten
    /\ modalKey # <<>>
    /\ modalSecret = <<>>
    /\ Commented(Env, "VITE_MODAL_KEY=")

\* C9: a run that supplied exactly one half of the credential pair ends as
\* a run that supplied neither: the environment file is the one written
\* without credentials, and the "Proxy auth not configured" note is printed
\* once the project is created.
OneHalf == (modalKey # <<>>) # (modalSecret # <<>>)
Created == "Project created!" \in output

C9_HalfPairAsNone ==
    (Created /\ OneHalf)
    => /\ Env = envLocalContent(modalUsername, projectName, <<>>, <<>>)
       /\ ProxyNote \in output

\* C10: the development endpoint written to the environment file is
\* https://<account>--<project>-backend-fastapi-app-dev.modal.run, the
\* production endpoint the same without "-dev": cutting the "-dev" that
\* precedes ".modal.run" out of the first gives the second; for alice and
\* demo they are the two URLs of the scenario.
ValueOf(content, prefix) ==
    LET i == CHOOSE i \in 1..Len(content) : StartsWith(content[i], prefix)
    IN SubSeq(content[i], Len(prefix) + 1, Len(content[i]))

HostSuffix == <<".", "m", "o", "d", "a", "l", ".", "r", "u", "n">>
DevSegment == <<"-", "d", "e", "v">>

\* url without the "-dev" that ends its part before ".modal.run"
CutDevSegment(url) ==
    LET n == Len(url) - Len(HostSuffix)
    IN SubSeq(url, 1, n - Len(DevSegment)) \o HostSuffix

AliceDemoDev ==
    <<"h", "t", "t", "p", "s", ":", "/", "/", "a", "l", "i", "c", "e", "-", "-",
      "d", "e", "m", "o", "-", "b", "a", "c", "k", "e", "n", "d", "-", "f", "a",
      "s", "t", "a", "p", "i", "-", "a", "p", "p", "-", "d", "e", "v", ".", "m",
      "o", "d", "a", "l", ".", "r", "u", "n">>
AliceDemoProd ==
    <<"h", "t", "t", "p", "s", ":", "/", "/", "a", "l", "i", "c", "e", "-", "-",
      "d", "e", "m", "o", "-", "b", "a", "c", "k", "e", "n", "d", "-", "f", "a",
      "s", "t", "a", "p", "i", "-", "a", "p", "p", ".", "m", "o", "d", "a", "l",
      ".", "r", "u", "n">>

C10_Endpoints ==
    EnvWritten
    => LET dev == ValueOf(Env, <<"VITE_API_URL=">>)
           prod == ValueOf(Env, <<"#", " ", "VITE_API_URL=">>)
           stem == <<"h", "t", "t", "p", "s", ":", "/", "/">> \o modalUsername
                   \o <<"-", "-">> \o projectName
       IN /\ StartsWith(dev, stem) /\ StartsWith(prod, stem)
          /\ EndsWith(dev, DevSegment \o HostSuffix)
          /\ EndsWith(prod, HostSuffix)
          /\ Len(dev) = Len(prod) + Len(DevSegment)
          /\ CutDevSegment(dev) = prod
          /\ (modalUsername = Alice /\ projectName = Demo)
                => (dev = AliceDemoDev /\ prod = AliceDemoProd)

C10_Witness ==
    /\ EnvWritten
    /\ modalUsername = Alice
    /\ projectName = Demo
    /\ ValueOf(Env, <<"VITE_API_URL=">>) = AliceDemoDev

----------------------------------------------------------------------------
\* The template files copyDir is to carry over: those with no excluded
\* component on their path.
Kept(tree) ==
    { p \in DOMAIN tree.files : \A i \in 1..Len(p) : p[i] \notin Excluded }

\* the destination name the rules give an entry name
DestName(name) ==
    IF name = Gitignore THEN DotGitignore
    ELSE IF EndsWith(name, DotHbs) THEN SubSeq(name, 1, Len(name) - 4)
    ELSE name

DestOf(p) == Append(SubSeq(p, 1, Len(p) - 1), DestName(p[Len(p)]))

\* C11: once copyDir has returned, the target holds exactly one file for
\* each template file that has no excluded path component, in the same
\* relative directory under its translated name, and nothing else; nothing
\* at or below an excluded name is in the target.
C11_MirrorsTemplate ==
    pc = <<"createProject", "envLocal">> =>
        /\ DOMAIN target.files = { DestOf(p) : p \in Kept(template) }
        /\ Cardinality(DOMAIN target.files) = Cardinality(Kept(template))
        /\ \A p \in DOMAIN target.files \cup target.dirs :
              \A i \in 1..Len(p) : p[i] \notin Excluded

----------------------------------------------------------------------------
\* C12 as stated: for every valid project name and every content, a second
\* substitution pass changes nothing.
C12_IdempotentOnAll ==
    pc = <<"subst", "twice">> => twice = once

\* every brace of the line belongs to an occurrence of one of the two tokens
RECURSIVE BracesInTokens(_)
BracesInTokens(line) ==
    IF line = <<>> THEN TRUE
    ELSE IF StartsWith(line, TokProjectNamePascal)
    THEN BracesInTokens(SubSeq(line, Len(TokProjectNamePascal) + 1, Len(line)))
    ELSE IF StartsWith(line, TokProjectName)
    THEN BracesInTokens(SubSeq(line, Len(TokProjectName) + 1, Len(line)))
    ELSE Head(line) \notin {"{", "}"} /\ BracesInTokens(Tail(line))

WellFormed(c) == \A i \in 1..Len(c) : BracesInTokens(c[i])

\* C12: for every valid project name and every content whose braces all
\* belong to occurrences of the two tokens, a second substitution pass
\* changes nothing.
C12_IdempotentOnTokens ==
    (pc = <<"subst", "twice">> /\ WellFormed(fileContent)) => twice = once

C12_Witness ==
    /\ pc = <<"subst", "twice">>
    /\ WellFormed(fileContent)
    /\ once # fileContent
    /\ twice = once

----------------------------------------------------------------------------
\* what a run prints on each way out through process.exit(1)
PrereqAborted == \E t \in Tools : SetupRequired(t) \in output
Cancelled == "Operation cancelled." \in output
Thrown == "Error:" \in output

\* C13: the exit code is 1 exactly in the runs in which a prerequisite is
\* missing, declined or fails, a required prompt is cancelled, or
\* createProject throws; every other run keeps exit code 0 to its end.
C13_ExitCode ==
    /\ exitCode = IF Exited THEN 1 ELSE 0
    /\ Exited <=> (PrereqAborted \/ Cancelled \/ Thrown)
    /\ \A t \in Tools :
          \/ toolState[t].installed = "no" /\ calls[t]["install"] = 0
                /\ pc \notin {<<t, "promptInstall">>, <<t, "install">>}
          \/ toolState[t].identity = "no" /\ calls[t]["auth"] = 0
                /\ pc \notin {<<t, "promptLogin">>, <<t, "login">>}
          \/ InstallFailedHint(t) \in output
          \/ LoginFailed(t) \in output
          => Exited /\ SetupRequired(t) \in output
    /\ pc[1] = "main" /\ pc[2] \in {"agent", "returned"} => exitCode = 0

C13_Witness ==
    /\ Exited
    /\ exitCode = 1
    /\ Thrown
    /\ PromptsCompleted

----------------------------------------------------------------------------
PostSteps == {"gitInit", "gitAdd", "pnpmRoot", "pnpmFrontend", "uvBackend",
              "uvAgent", "gitAddFinal", "gitCommit"}

\* an execSync of createProject has just failed
ExecFailed == steps' # steps /\ lastExec' = "failed"

\* C14: a failing subprocess of createProject (git init, git add, pnpm
\* install, uv sync, git commit) neither makes createProject throw nor sets
\* exit code 1: createProject goes on to a later step or returns, and main
\* then reports the project as created.
C14_PostFailureNotFatal ==
    /\ [][ExecFailed =>
            /\ pc[1] = "createProject" /\ pc[2] \in PostSteps
            /\ pc'[1] = "createProject"
            /\ pc'[2] \in (PostSteps \ {pc[2]}) \cup {"return"}
            /\ exitCode' = 0
            /\ ~Thrown']_vars
    /\ [](steps # <<>> => exitCode = 0 /\ ~Thrown /\ ~Exited)
    /\ [][pc = <<"createProject", "return">> /\ pc' # pc => Created']_vars

C14_Witness ==
    /\ pc = <<"main", "returned">>
    /\ lastExec = "failed"
    /\ "Warning: Could not install root dependencies. Run 'pnpm install' manually."
          \in output
    /\ Created
    /\ exitCode = 0

----------------------------------------------------------------------------
GitSteps == {"gitInit", "gitAdd", "gitAddFinal", "gitCommit"}
InstallSteps == PostSteps \ GitSteps

\* the warning that names a dependency-installation step and its command
ManualHint(step) ==
    IF step = "pnpmRoot"
    THEN "Warning: Could not install root dependencies. Run 'pnpm install' manually."
    ELSE IF step = "pnpmFrontend"
    THEN "Warning: Could not install frontend dependencies. Run 'pnpm install' in frontend/ manually."
    ELSE IF step = "uvBackend"
    THEN "Warning: Could not install backend dependencies. Run 'uv sync' in backend/ manually."
    ELSE "Warning: Could not install agent dependencies. Run 'uv sync' in agent/ manually."

\* C15 as stated: every failing step of createProject, dependency
\* installation or version control alike, prints a warning.
C15_EveryFailureWarned ==
    [][ExecFailed => output' # output]_vars

\* C15: every failing dependency-installation step prints the warning that
\* names that step and its manual command, and nothing else; a failing git
\* step (init, add, commit) prints nothing.
C15_InstallFailureWarned ==
    [][ExecFailed =>
          IF pc[2] \in InstallSteps
          THEN ManualHint(pc[2]) \notin output
               /\ output' = output \cup {ManualHint(pc[2])}
          ELSE pc[2] \in GitSteps /\ output' = output]_vars

C15_Witness ==
    /\ pc = <<"createProject", "uvAgent">>
    /\ lastExec = "failed"
    /\ ManualHint("uvBackend") \in output

----------------------------------------------------------------------------
\* C16 as stated: a run that aborts in the prerequisite phase has printed,
\* before it exits, the manual command for the tool and the step that
\* failed: the install command when the tool was missing, its install
\* declined or failed, the login command when the login was missing,
\* declined or failed.
C16_AbortHasHint ==
    \A t \in Tools :
        (Exited /\ SetupRequired(t) \in output) =>
            IF toolState[t].identity = "unchecked"
            THEN InstallHint(t) \in output \/ InstallFailedHint(t) \in output
            ELSE LoginHint(t) \in output

----------------------------------------------------------------------------
\* C17: when no template root is found, createProject throws at the lookup,
\* before it has made the target directory or written any file: the target
\* is never changed in such a run, and the run ends with the error.
C17_NoTemplateNoWrite ==
    /\ [][~templateFound => target' = target]_vars
    /\ [][pc = <<"createProject", "findTemplate">> /\ pc' # pc
                                                  /\ ~templateFound
            => /\ Exited'
               /\ exitCode' = 1
               /\ NoTemplateMessage \in output']_vars

C17_Witness ==
    /\ Exited
    /\ NoTemplateMessage \in output
    /\ ~templateFound
    /\ target = AbsentTarget

----------------------------------------------------------------------------
\* C18 as stated: of two runs started on the same path at most one ever
\* writes under it, whatever the interleaving; a run that has not written
\* while the other has fails at its emptiness check.
C18_AtMostOneWrites ==
    /\ ~(wrote["first"] /\ wrote["second"])
    /\ \A r \in Runs : \A o \in Runs \ {r} :
          (wrote[r] /\ runPc[o] = "exited") => NotEmptyMessage \in output

----------------------------------------------------------------------------
\* a step of the run that starts a subprocess and waits for its end
BlockingCall == calls' # calls \/ steps' # steps

\* C19 as stated: at every point at most one subprocess started by the run
\* is running: none is left running when a blocking call starts another.
C19_OneSubprocess ==
    /\ [](Cardinality(running) <= 1)
    /\ [][BlockingCall => running = {}]_vars

\* C19: every detection, install, login, dependency-installation and git
\* subprocess has ended before the next step begins, and the agent is
\* started last, after which the run starts nothing more; only the browser
\* opener started for the token page is not waited for and may run beside
\* the subprocesses that follow it.
C19_OneBlockingSubprocess ==
    /\ [](running \subseteq {"browser", "agent"})
    /\ [][BlockingCall => running \subseteq {"browser"} /\ running' = running]_vars
    /\ [][agent # "none" => ~BlockingCall /\ running' \subseteq running]_vars

C19_Witness ==
    /\ running = {"browser", "agent"}
    /\ Len(steps) > 0
    /\ pc = <<"main", "agent">>

----------------------------------------------------------------------------
AtDescription == pc = <<"main", "description">>

\* C20 as stated: the description prompt can be skipped; leaving it without
\* a description never aborts the run.
C20_SkipNeverAborts ==
    [][AtDescription => ~Exited']_vars

\* C20: the description is required.  The prompt is left either with a
\* non-empty description, towards the next prompt, or by a cancel, which
\* ends the run with exit code 1 and no description; an empty submission is
\* rejected and the prompt stays open; createProject is only ever entered
\* with a non-empty description.
C20_DescriptionRequired ==
    /\ [][AtDescription /\ pc' # pc =>
            \/ /\ pc' = <<"main", "configureAuth">>
               /\ Truthy(appDescription')
               /\ exitCode' = 0
            \/ /\ Exited'
               /\ exitCode' = 1
               /\ Cancelled'
               /\ ~Truthy(appDescription')]_vars
    /\ [][AtDescription /\ pc' = pc =>
            /\ rejected' = <<>>
            /\ attempts' = attempts + 1
            /\ appDescription' = appDescription]_vars
    /\ [](pc[1] = "createProject" => Truthy(appDescription))

C20_Witness ==
    /\ Exited
    /\ Cancelled
    /\ <<"main", "description">> \in asked
    /\ Truthy(projectName)
    /\ ~Truthy(appDescription)

----------------------------------------------------------------------------
\* C21 as stated: with a positional argument the project-name prompt is not
\* issued and createProject is entered with the argument as project name.
C21_ArgumentIsName ==
    Truthy(argv) =>
        /\ <<"main", "projectName">> \notin asked
        /\ pc[1] = "createProject" => projectName = argv

----------------------------------------------------------------------------
Asked(name) == <<"main", name>> \in asked

----------------------------------------------------------------------------
\* C23: a cancelled project-name or description prompt ends the run with
\* exit code 1 before createProject is called, so that the target is as it
\* was; the run goes past a prompt only with an answer its validator
\* accepts, and a rejected submission never becomes the answer.
C23_CancelAborts ==
    /\ [](Cancelled =>
            /\ Exited /\ exitCode = 1
            /\ ~Truthy(projectName) \/ ~Truthy(appDescription)
            /\ target \in InitialTargets
            /\ "Creating project in" \notin output /\ ~Thrown
            /\ steps = <<>>)
    /\ [](Asked("description") /\ ~Cancelled
            => MatchesNamePattern(projectName))
    /\ [](Asked("configureAuth") => Truthy(appDescription))
    /\ [][/\ projectName' # projectName => MatchesNamePattern(projectName')
          /\ appDescription' # appDescription => Truthy(appDescription')
          /\ Truthy(rejected') =>
                /\ pc' = pc
                /\ projectName' = projectName
                /\ ~MatchesNamePattern(rejected')]_vars

C23_Witness ==
    /\ Exited
    /\ Cancelled
    /\ Asked("projectName")
    /\ ~Asked("description")
    /\ target = EmptyTarget

----------------------------------------------------------------------------
\* text `part` occurs in the line
Contains(line, part) ==
    \E i \in 0..(Len(line) - Len(part)) :
        SubSeq(line, i + 1, i + Len(part)) = part

Mentions(content, part) ==
    \E i \in 1..Len(content) : Contains(content[i], part)

\* https://<account>--<project>-backend-fastapi-app-dev.modal.run
DevEndpoint(user, name) ==
    <<"h", "t", "t", "p", "s", ":", "/", "/">> \o user \o <<"-", "-">> \o name
    \o <<"-", "b", "a", "c", "k", "e", "n", "d", "-", "f", "a", "s", "t", "a", "p", "i", "-", "a", "p", "p">>
    \o <<"-", "d", "e", "v", ".", "m", "o", "d", "a", "l", ".", "r", "u", "n">>

\* createProject has returned normally, or is past its last writeFileSync
GeneratedWritten ==
    \/ pc[1] = "createProject" /\ pc[2] \in PostSteps \cup {"return"}
    \/ Created

\* C24: once createProject has written its generated files, and so whenever
\* it has returned normally, the target holds frontend/.env.local whose
\* VITE_API_URL is the development endpoint of the account and the project,
\* app_spec.md with the project name and the description in it, and
\* claude-progress.txt with the project name and the description in it.
C24_GeneratedFiles ==
    GeneratedWritten =>
        /\ IsFile(target, EnvPath)
        /\ ValueOf(Env, <<"VITE_API_URL=">>)
              = DevEndpoint(modalUsername, projectName)
        /\ IsFile(target, <<AppSpecMd>>)
        /\ Mentions(target.files[<<AppSpecMd>>], projectName)
        /\ Mentions(target.files[<<AppSpecMd>>], appDescription)
        /\ IsFile(target, <<ProgressTxt>>)
        /\ Mentions(target.files[<<ProgressTxt>>], projectName)
        /\ Mentions(target.files[<<ProgressTxt>>], appDescription)
        /\ Truthy(projectName) /\ Truthy(appDescription)

C24_Witness ==
    /\ pc = <<"createProject", "return">>
    /\ projectName = <<"a">>
    /\ HasLine(target.files[<<ProgressTxt>>], appDescription)
    /\ HasLine(target.files[<<AppSpecMd>>], <<"#", " ", "a">>)

----------------------------------------------------------------------------
\* two template files that are to be carried over get the same destination
Collides(tree) ==
    \E p \in Kept(tree) : \E q \in Kept(tree) \ {p} : DestOf(p) = DestOf(q)

\* C25 as stated: with such a pair in the template, materialization ends
\* with an error: copyDir does not return normally and the run exits with
\* an error message.
C25_CollisionFails ==
    [][(pc = <<"createProject", "copyDir">> /\ pc' # pc /\ Collides(template))
          => (Exited' /\ Thrown' /\ exitCode' = 1)]_vars

----------------------------------------------------------------------------
\* what copyDir is to write for the template file p
Expected(p) ==
    IF EndsWith(p[Len(p)], DotHbs)
    THEN substitute(template.files[p], projectName)
    ELSE template.files[p]

\* the tree is one that the template and the project name determine: the
\* template's directories and files that are carried over, and nothing of
\* what the target was before
CopyOf(fs) ==
    /\ fs.exists
    /\ fs.dirs = { d \in template.dirs :
                     \A i \in 1..Len(d) : d[i] \notin Excluded }
    /\ DOMAIN fs.files = { DestOf(p) : p \in Kept(template) }
    /\ \A d \in DOMAIN fs.files :
          fs.files[d] \in { Expected(p) : p \in { q \in Kept(template) : DestOf(q) = d } }

\* C26: createProject goes on from its emptiness check both when the target
\* is absent and when it is an empty directory, and with the template found
\* the copy is made and gives the tree that the template and the project
\* name determine, the same in the two cases.
C26_AbsentOrEmptySameTree ==
    /\ [][(pc = <<"createProject", "preflight">> /\ pc' # pc
             /\ target \in {AbsentTarget, EmptyTarget})
          => (pc' = <<"createProject", "findTemplate">> /\ target' = target)]_vars
    /\ [][(pc = <<"createProject", "copyDir">> /\ pc' # pc)
          => /\ target \in {AbsentTarget, EmptyTarget}
             /\ templateFound
             /\ pc' = <<"createProject", "envLocal">>
             /\ CopyOf(target')]_vars

C26_Witness ==
    /\ pc = <<"createProject", "envLocal">>
    /\ template = TemplateB
    /\ CopyOf(target)
    /\ IsFile(target, <<Frontend, MJs>>)

----------------------------------------------------------------------------
InstalledNow(t) == calls[t]["install"] > 0

\* C27: in ensureModal and ensureVercel the login is offered and the auth
\* command run only when the identity check made after the detection or the
\* install returned no identity; a tool installed in this run whose
\* identity check returns an identity is Ready at once, with no login
\* prompt and no auth subprocess.
C27_LoginOnlyWithoutIdentity ==
    \A t \in {"modal", "vercel"} :
        /\ (\/ <<t, "login">> \in asked
            \/ calls[t]["auth"] > 0
            \/ pc \in {<<t, "promptLogin">>, <<t, "login">>, <<t, "recheck">>})
              => toolState[t].identity = "no"
        /\ (InstalledNow(t) /\ toolState[t].identity = "yes")
              => /\ <<t, "login">> \notin asked
                 /\ calls[t]["auth"] = 0
                 /\ calls[t]["identity"] = 1
                 /\ pc[1] # t
                 /\ UsernameOf(t) \in Identities
                 /\ SetupRequired(t) \notin output

C27_Witness ==
    /\ pc = <<"main", "projectName">>
    /\ InstalledNow("modal") /\ toolState["modal"].identity = "yes"
    /\ InstalledNow("vercel") /\ toolState["vercel"].identity = "yes"
    /\ asked = {<<"modal", "install">>, <<"vercel", "install">>}

----------------------------------------------------------------------------
\* C28: the account name createProject works with is never empty; it is the
\* value the last Modal identity detection returned, taken in the step of
\* that detection and not changed afterwards; a login that exits with 0 and
\* is followed by an empty identity, in loginModal or in the reading after
\* it, ends the run with exit code 1 before anything is created.
C28_AccountName ==
    /\ [](pc[1] \in {"createProject", "main"} /\ ~Exited
             => Truthy(modalUsername) /\ modalUsername \in Identities)
    /\ [](SetupRequired("modal") \in output
             => /\ Exited /\ exitCode = 1
                /\ ~Truthy(modalUsername)
                /\ target \in InitialTargets /\ asked \subseteq {"modal"} \X {"install", "login"})
    /\ [][modalUsername' # modalUsername
             => /\ pc[1] = "modal"
                /\ calls'["modal"]["identity"] = calls["modal"]["identity"] + 1
                /\ modalUsername' = username'
                /\ Truthy(username')]_vars
    /\ [][(pc \in {<<"modal", "login">>, <<"modal", "recheck">>} /\ pc' # pc
             /\ calls'["modal"]["identity"] > calls["modal"]["identity"]
             /\ (pc' # <<"modal", "recheck">> /\ modalUsername' = modalUsername))
             => (Exited' /\ exitCode' = 1
                   /\ SetupRequired("modal") \in output')]_vars

C28_Witness ==
    /\ pc = <<"createProject", "preflight">>
    /\ calls["modal"]["auth"] = 1
    /\ calls["modal"]["identity"] = 3
    /\ modalUsername = Alice

C28_AbortWitness ==
    /\ Exited
    /\ calls["modal"]["auth"] = 1
    /\ calls["modal"]["identity"] = 3
    /\ ~Truthy(modalUsername)

----------------------------------------------------------------------------
\* the command each post-materialization step is to run
Command(step) ==
    CASE step = "gitInit" -> "git init"
      [] step \in {"gitAdd", "gitAddFinal"} -> "git add -A"
      [] step = "pnpmRoot" -> "pnpm install"
      [] step = "pnpmFrontend" -> "pnpm install in frontend"
      [] step = "uvBackend" -> "uv sync in backend"
      [] step = "uvAgent" -> "uv sync in agent"
      [] step = "gitCommit" -> "git commit"

\* the step that is to follow `step`, given whether its command failed
Follows(step, failed) ==
    CASE step = "gitInit" -> IF failed THEN "pnpmRoot" ELSE "gitAdd"
      [] step = "gitAdd" -> "pnpmRoot"
      [] step = "pnpmRoot" -> "pnpmFrontend"
      [] step = "pnpmFrontend" -> "uvBackend"
      [] step = "uvBackend" -> "uvAgent"
      [] step = "uvAgent" -> "gitAddFinal"
      [] step = "gitAddFinal" -> IF failed THEN "return" ELSE "gitCommit"
      [] step = "gitCommit" -> "return"

\* C29: the post-materialization commands run in the order git init, git
\* add, root pnpm install, frontend pnpm install, backend uv sync, agent uv
\* sync, git add, git commit; each is attempted whatever the outcome of the
\* earlier ones, except that the first git add is skipped when git init
\* fails and git commit when the final git add fails.
C29_PostStepOrder ==
    /\ [][(pc = <<"createProject", "progress">> /\ pc' # pc /\ ~Exited')
             => (pc' = <<"createProject", "gitInit">> /\ steps' = <<>>)]_vars
    /\ [][steps' # steps
             => /\ pc[1] = "createProject" /\ pc[2] \in PostSteps
                /\ steps' = Append(steps, Command(pc[2]))
                /\ lastExec' \in {"ok", "failed"}
                /\ pc' = <<"createProject", Follows(pc[2], lastExec' = "failed")>>]_vars
    /\ [][(pc[1] = "createProject" /\ pc[2] \in PostSteps /\ pc' # pc)
             => steps' # steps]_vars
    /\ [](Created =>
             \E first \in {<<"git init">>, <<"git init", "git add -A">>} :
                \E last \in {<<"git add -A">>, <<"git add -A", "git commit">>} :
                    steps = first \o <<"pnpm install", "pnpm install in frontend",
                                       "uv sync in backend", "uv sync in agent">>
                                  \o last)

C29_Witness ==
    /\ pc = <<"createProject", "return">>
    /\ lastExec = "failed"
    /\ steps = <<"git init", "pnpm install", "pnpm install in frontend",
                 "uv sync in backend", "uv sync in agent", "git add -A">>
    /\ ManualHint("pnpmRoot") \in output
    /\ ManualHint("uvAgent") \in output

----------------------------------------------------------------------------
\* C30: the agent is started only after createProject has returned normally
\* and the user has confirmed the launch; it is never started when
\* createProject throws or the user declines; a failure to start it is
\* reported with the manual command and leaves the exit code at 0.
C30_AgentLaunch ==
    /\ [](agent # "none"
             => /\ Created /\ Asked("launch")
                /\ ~Thrown /\ ~Exited /\ exitCode = 0
                /\ pc \in {<<"main", "agent">>, <<"main", "returned">>})
    /\ [](Thrown \/ Exited => agent = "none" /\ ~Asked("launch"))
    /\ [][agent = "none" /\ agent' # "none"
             => /\ agent' = "running"
                /\ pc = <<"createProject", "return">>
                /\ ~Thrown' /\ Created'
                /\ ~Asked("launch") /\ <<"main", "launch">> \in asked'
                /\ pc' = <<"main", "agent">>]_vars
    /\ [][pc = <<"main", "returned">> => pc' = pc /\ agent' = agent]_vars
    /\ [](agent = "failed"
             => /\ "Failed to start agent:" \in output
                /\ "Run manually: cd agent && uv run agent" \in output
                /\ exitCode = 0
                /\ pc = <<"main", "returned">>)

C30_Witness ==
    /\ agent = "failed"
    /\ pc = <<"main", "returned">>
    /\ "Run manually: cd agent && uv run agent" \in output

C30_DeclinedWitness ==
    /\ agent = "none"
    /\ pc = <<"main", "returned">>
    /\ Asked("launch")

====
